---- MODULE Spec2Model ----
(***************************************************************************)
(* Imgbox uploader (PythonApplication1.py): the JSON gallery store, the    *)
(* /upload request handler and handle_uploads_sequential, the coroutine    *)
(* that resolves a gallery (create or resume), uploads the files one by    *)
(* one with retries and exponential backoff, and persists the gallery's    *)
(* URLs.  The pyimgbox gallery and the file system are the environment:    *)
(* every remote call either raises or returns one of a small set of        *)
(* results.                                                                *)
(*                                                                         *)
(* Strings that the code takes apart (URLs) are sequences of their         *)
(* "/"-separated segments: "https://imgbox.com/upload/edit/s1/t1" is       *)
(* <<"https:", "", "imgbox.com", "upload", "edit", "s1", "t1">>.           *)
(* Python's None is the empty sequence, the empty string is <<"">>.        *)
(***************************************************************************)
EXTENDS Integers, Sequences, FiniteSets, TLC

\* ------------------------------------------------------------------ bounds
MaxItems == 2

\* ------------------------------------------------------- program constants
MaxAttempts == 5
InitialBackoff == 1
BackoffFactor == 2

\* ------------------------------------------------------------ value domains
Runs == {"r1", "r2"}

NONE  == << >>
EMPTY == <<"">>

DefaultTitle == "Uploaded Gallery"
TitleInputs  == {"", "Chapter 1"}
CookieInputs == {"", " ", "abc", " abc "}
Names        == {"a.png", "b.png"}

G1 == <<"https:", "", "imgbox.com", "g", "s1">>
G2 == <<"https:", "", "imgbox.com", "g", "s2">>
E1 == <<"https:", "", "imgbox.com", "upload", "edit", "s1", "t1">>
E2 == <<"https:", "", "imgbox.com", "upload", "edit", "s2", "t2">>
\* no "/upload/edit/" segment pair
BadNoUpload == <<"https:", "", "imgbox.com", "edit", "s1", "t1">>
\* "/upload/edit/s1" with no token segment
BadNoToken  == <<"https:", "", "imgbox.com", "upload", "edit", "s1">>
\* "/upload/edit//t1": empty slug
BadNoSlug   == <<"https:", "", "imgbox.com", "upload", "edit", "", "t1">>
\* "upload/edit/s1/t1": no slash before "upload"
BadNoSlash  == <<"upload", "edit", "s1", "t1">>
\* a first "/upload/edit/" that does not match, a second one that does
E3 == <<"", "upload", "edit", "", "upload", "edit", "s2", "t2">>

W1 == <<"https:", "", "imgbox.com", "w1">>
I1 == <<"https:", "", "images.imgbox.com", "i1.png">>

Errors == {"timeout", "reset"}

\* Python truthiness of an optional string
Truthy(s) == s # NONE /\ s # EMPTY

\* Python's `a or b`
PyOr(a, b) == IF Truthy(a) THEN a ELSE b

\* str.strip() on the cookie inputs
Strip(c) == CASE c = " "     -> ""
              [] c = " abc " -> "abc"
              [] OTHER       -> c

\* ---------------------------------------------------------------- the store
EmptyMap == [t \in {} |-> 0]

Rec(g, e) == [gallery_url |-> g, edit_url |-> e]

Json(d) == [state |-> "json", data |-> d]
\* the file cannot be opened (removed, no permission)
Missing == [state |-> "missing", data |-> EmptyMap]
\* the file opens but does not hold JSON (empty, truncated)
Garbled == [state |-> "garbled", data |-> EmptyMap]

One(t, r) == [x \in {t} |-> r]

\* load_saved_links(): open() is outside the try, JSONDecodeError is caught
LoadSavedLinks(f) ==
    CASE f.state = "missing" -> [raised |-> TRUE,  value |-> EmptyMap]
      [] f.state = "garbled" -> [raised |-> FALSE, value |-> EmptyMap]
      [] OTHER               -> [raised |-> FALSE, value |-> f.data]

\* setdefault in place of assignment: a record already there is kept
WriteLinksKeep(data, t, g, e) ==
    Json([x \in DOMAIN data \cup {t} |->
             IF x \in DOMAIN data THEN data[x] ELSE Rec(g, e)])

\* the two URLs stored under each other's key
WriteLinksSwapped(data, t, g, e) ==
    Json([x \in DOMAIN data \cup {t} |-> IF x = t THEN Rec(e, g) ELSE data[x]])

\* a save that writes the new record alone
WriteLinksAlone(data, t, g, e) == Json(One(t, Rec(g, e)))

\* data[title] = {...}; json.dump(data, f)
WriteLinks(data, t, g, e) ==
    Json([x \in DOMAIN data \cup {t} |-> IF x = t THEN Rec(g, e) ELSE data[x]])

\* save_gallery_link(title, gallery_url, edit_url) as one call
SaveGalleryLink(f, t, g, e) ==
    LET l == LoadSavedLinks(f)
    IN  IF l.raised THEN [raised |-> TRUE, file |-> f]
        ELSE [raised |-> FALSE, file |-> WriteLinks(l.value, t, g, e)]

\* ------------------------------------------------------------- the resolver
NoMatch == [matched |-> FALSE, slug |-> "", token |-> ""]

\* "/upload/edit/([^/]+)/([^/]+)" matched with "upload" as segment i
MatchAt(u, i) ==
    /\ i >= 2
    /\ i + 3 <= Len(u)
    /\ u[i] = "upload"
    /\ u[i + 1] = "edit"
    /\ u[i + 2] # ""
    /\ u[i + 3] # ""

RECURSIVE SearchFrom(_, _)
SearchFrom(u, i) ==
    IF i + 3 > Len(u) THEN NoMatch
    ELSE IF MatchAt(u, i)
         THEN [matched |-> TRUE, slug |-> u[i + 2], token |-> u[i + 3]]
         ELSE SearchFrom(u, i + 1)

\* the two groups taken in the wrong order
EditUrlSearchSwapped(u) ==
    LET m == SearchFrom(u, 1)
    IN  [matched |-> m.matched, slug |-> m.token, token |-> m.slug]

\* re.search(r"/upload/edit/([^/]+)/([^/]+)", edit_url): leftmost match
EditUrlSearch(u) == SearchFrom(u, 1)

\* load_saved_links().get(title, {}).get("edit_url")
SavedEditUrl(data, t) == IF t \in DOMAIN data THEN data[t].edit_url ELSE NONE

CreateMode(t)    == [mode |-> "create", title |-> t,  slug |-> "", token |-> ""]
ResumeMode(s, k) == [mode |-> "resume", title |-> "", slug |-> s,  token |-> k]

\* the arguments pyimgbox.Gallery is constructed with
ResolveGallery(data, t) ==
    LET edit_url == SavedEditUrl(data, t)
        m        == EditUrlSearch(edit_url)
    IN  IF Truthy(edit_url)
        THEN IF m.matched THEN ResumeMode(m.slug, m.token) ELSE CreateMode(t)
        ELSE CreateMode(t)

\* httpx_client.headers["Cookie"]
CookieHeader(c) == <<"_imgbox_session", c>>

\* ------------------------------------------------------ the upload executor
NoSub == [success |-> FALSE, web_url |-> NONE, image_url |-> NONE,
          has_error |-> FALSE, error |-> ""]

\* what g.upload() can return: a submission with or without the success flag
Submissions ==
    { [success |-> TRUE,  web_url |-> W1,    image_url |-> I1,
       has_error |-> FALSE, error |-> ""],
      [success |-> TRUE,  web_url |-> EMPTY, image_url |-> I1,
       has_error |-> FALSE, error |-> ""],
      [success |-> TRUE,  web_url |-> NONE,  image_url |-> NONE,
       has_error |-> FALSE, error |-> ""],
      [success |-> FALSE, web_url |-> NONE,  image_url |-> NONE,
       has_error |-> TRUE,  error |-> "too large"],
      [success |-> FALSE, web_url |-> NONE,  image_url |-> NONE,
       has_error |-> TRUE,  error |-> ""],
      NoSub }

\* the local `submission`: None, an exception or a returned submission
SubNone     == [tag |-> "none", exc |-> "", sub |-> NoSub]
SubExc(e)   == [tag |-> "exc",  exc |-> e,  sub |-> NoSub]
SubRet(s)   == [tag |-> "sub",  exc |-> "", sub |-> s]

Line(k, n, u, e) == [kind |-> k, name |-> n, url |-> u, err |-> e]

\* a line that prefers the image URL to the web URL
ClassifyImageFirst(name, submission) ==
    IF submission.tag = "exc"
    THEN Line("Failed", name, NONE, submission.exc)
    ELSE IF submission.tag = "sub" /\ submission.sub.success
         THEN Line("OK", name,
                   PyOr(PyOr(submission.sub.image_url, submission.sub.web_url),
                        EMPTY), "")
         ELSE Line("Fail", name, NONE,
                   IF submission.tag = "sub" /\ submission.sub.has_error
                   THEN submission.sub.error ELSE "Unknown error")

\* the line appended to results for one item
Classify(name, submission) ==
    IF submission.tag = "exc"
    THEN Line("Failed", name, NONE, submission.exc)
    ELSE IF submission.tag = "sub" /\ submission.sub.success
         THEN Line("OK", name,
                   PyOr(PyOr(submission.sub.web_url, submission.sub.image_url),
                        EMPTY), "")
         ELSE Line("Fail", name, NONE,
                   IF submission.tag = "sub" /\ submission.sub.has_error
                   THEN submission.sub.error ELSE "Unknown error")

\* range(5): the attempt that stores the exception instead of sleeping
LastAttempt(attempt) == attempt = MaxAttempts - 1

\* a backoff that grows by one instead of doubling
NextBackoffLinear(b) == b + 1

\* backoff *= 2
NextBackoff(b) == b * BackoffFactor

\* results.insert(0, ...) in place of append
AppendResultFront(results, line) == <<line>> \o results

\* results.append(...)
AppendResult(results, line) == Append(results, line)

\* if gallery.url:
ShouldPersist(g) == Truthy(g.url)

\* results.insert(0, gallery line); results.insert(1, edit line)
PrependUrls(results, g) ==
    <<Line("Gallery URL", "", g.url, ""), Line("Edit URL", "", g.edit_url, "")>>
        \o results

\* ------------------------------------------------------------ the gallery
NoGallery == [mode |-> "none", title |-> "", slug |-> "", token |-> "",
              cookie |-> NONE, creates |-> 0, created |-> FALSE,
              url |-> NONE, edit_url |-> NONE, closes |-> 0]

\* a gallery whose client is left without the Cookie header
NewGalleryNoCookie(args, c) ==
    [NoGallery EXCEPT !.mode = args.mode, !.title = args.title,
                      !.slug = args.slug, !.token = args.token]

\* pyimgbox.Gallery(...) and the Cookie header set on its client
NewGallery(args, c) ==
    [NoGallery EXCEPT !.mode = args.mode, !.title = args.title,
                      !.slug = args.slug, !.token = args.token,
                      !.cookie = CookieHeader(c)]

\* what the handle exposes after a create() that returned
HandleUrls ==
    { [url |-> G1,    edit_url |-> E1],
      [url |-> G2,    edit_url |-> BadNoUpload],
      [url |-> G1,    edit_url |-> EMPTY],
      [url |-> EMPTY, edit_url |-> E1],
      [url |-> NONE,  edit_url |-> NONE] }

\* the tally of a run's upload calls and sleeps: kept when switched on
NoTally == [on |-> FALSE, calls |-> 0, sleeps |-> 0]

Tallying == [on |-> TRUE, calls |-> 0, sleeps |-> 0]

\* one more call or sleep on tally t
Tally(t, k) == IF t.on THEN [t EXCEPT ![k] = @ + 1] ELSE t

\* ------------------------------------------------------------------- state
VARIABLES
    file,        \* galleries.json
    pc,          \* where each request is
    title,       \* upload(): title
    cred,        \* upload(): session_cookie
    infos,       \* upload(): infos, the display names in order
    gallery,     \* the pyimgbox gallery of the run
    idx,         \* the for loop's position in infos (0 before the loop)
    attempt,     \* the retry loop's attempt, 0..4
    backoff,     \* backoff
    submission,  \* submission
    results,     \* results
    data,        \* save_gallery_link(): data
    output,      \* what upload() renders
    tries,       \* upload calls made for the current item
    raises,      \* how many of them raised
    delays,      \* the sleeps made for the current item
    final,       \* per finished retry loop, what its last upload call did
    writes,      \* writes of galleries.json by the run
    call,        \* the last direct call of a store helper
    total        \* the upload calls and sleeps of the whole run, if tallied

vars == <<file, pc, title, cred, infos, gallery, idx, attempt, backoff,
          submission, results, data, output, tries, raises, delays, final,
          writes, call, total>>

runVars == <<pc, title, cred, infos, gallery, idx, attempt, backoff,
             submission, results, data, output, tries, raises, delays,
             final, writes, total>>

NoOutput == [status |-> "", error_message |-> "", upload_results |-> << >>,
             timed |-> FALSE]

\* render_template_string(..., saved_links=load_saved_links())
Render(f, msg, res, timed) ==
    IF LoadSavedLinks(f).raised
    THEN [status |-> "500", error_message |-> "", upload_results |-> << >>,
          timed |-> FALSE]
    ELSE [status |-> "200", error_message |-> msg, upload_results |-> res,
          timed |-> timed]

\* except Exception as e: upload_results = "Unexpected error: e"
Unexpected(f, e) ==
    Render(f, "", <<Line("Unexpected error", "", NONE, e)>>, FALSE)

NoCall == [op |-> "none", title |-> "", gallery_url |-> NONE,
           edit_url |-> NONE, raised |-> FALSE, value |-> EmptyMap]

\* sequences over S of length 1..n
Lists(S, n) == UNION {[1..k -> S] : k \in 1..n}

ItemLists == Lists(Names, MaxItems)

\* what galleries.json can hold when a request arrives
StoreInits ==
    { Missing, Garbled, Json(EmptyMap),
      Json(One("Chapter 1", Rec(G1, E1))),
      Json(One("Chapter 1", Rec(G1, BadNoUpload))),
      Json(One(DefaultTitle, Rec(G2, E2))) }

\* records whose edit URL the resolver has to take apart or give up on
EditUrlInits ==
    { Json(One("Chapter 1", Rec(G1, e))) :
        e \in {E1, E2, E3, BadNoUpload, BadNoToken, BadNoSlug, BadNoSlash,
               NONE, EMPTY} }

InitRunsTallied(t) ==
    /\ pc = [r \in Runs |-> "idle"]
    /\ title = [r \in Runs |-> ""]
    /\ cred = [r \in Runs |-> ""]
    /\ infos = [r \in Runs |-> << >>]
    /\ gallery = [r \in Runs |-> NoGallery]
    /\ idx = [r \in Runs |-> 0]
    /\ attempt = [r \in Runs |-> 0]
    /\ backoff = [r \in Runs |-> InitialBackoff]
    /\ submission = [r \in Runs |-> SubNone]
    /\ results = [r \in Runs |-> << >>]
    /\ data = [r \in Runs |-> EmptyMap]
    /\ output = [r \in Runs |-> NoOutput]
    /\ tries = [r \in Runs |-> 0]
    /\ raises = [r \in Runs |-> 0]
    /\ delays = [r \in Runs |-> << >>]
    /\ final = [r \in Runs |-> << >>]
    /\ writes = [r \in Runs |-> 0]
    /\ call = NoCall
    /\ total = [r \in Runs |-> t]

\* the state before any request, with no tally kept
InitRuns == InitRunsTallied(NoTally)

Init ==
    /\ file \in StoreInits
    /\ InitRuns

\* ----------------------------------------------------------------- actions
\* upload() returns its page: the request is over
Respond(r, out) ==
    /\ pc' = [pc EXCEPT ![r] = "done"]
    /\ output' = [output EXCEPT ![r] = out]

\* upload(), lines 153-192: the form is read and checked, the files are staged
\* in order, handle_uploads_sequential is called
Request(r, lists, titles) ==
    /\ pc[r] = "idle"
    /\ \E c \in CookieInputs, t \in titles, fs \in lists \cup {<< >>} :
          IF Strip(c) = ""
          THEN /\ Respond(r, Render(file,
                      "Please provide your _imgbox_session cookie.", << >>, FALSE))
               /\ UNCHANGED <<title, cred, infos>>
          ELSE IF fs = << >>
          THEN /\ Respond(r, Render(file, "No files selected.", << >>, FALSE))
               /\ cred' = [cred EXCEPT ![r] = Strip(c)]
               /\ title' = [title EXCEPT ![r] = IF t = "" THEN DefaultTitle ELSE t]
               /\ UNCHANGED infos
          ELSE /\ cred' = [cred EXCEPT ![r] = Strip(c)]
               /\ title' = [title EXCEPT ![r] = IF t = "" THEN DefaultTitle ELSE t]
               /\ infos' = [infos EXCEPT ![r] = fs]
               /\ pc' = [pc EXCEPT ![r] = "resolve"]
               /\ UNCHANGED output
    /\ UNCHANGED <<file, gallery, idx, attempt, backoff, submission, results,
                   data, tries, raises, delays, final, writes, call,
                   total>>

\* a resolver without the `if m:` test: m.groups() fails on a URL that does
\* not match
ResolveNoFallback(r) ==
    /\ pc[r] = "resolve"
    /\ LET l == LoadSavedLinks(file)
           u == SavedEditUrl(l.value, title[r])
       IN  IF l.raised \/ (Truthy(u) /\ ~EditUrlSearch(u).matched)
           THEN /\ Respond(r, Unexpected(file,
                        IF l.raised THEN "OSError" ELSE "AttributeError"))
                /\ UNCHANGED gallery
           ELSE /\ gallery' = [gallery EXCEPT
                       ![r] = NewGallery(ResolveGallery(l.value, title[r]), cred[r])]
                /\ pc' = [pc EXCEPT ![r] = "create"]
                /\ UNCHANGED output
    /\ UNCHANGED <<file, title, cred, infos, idx, attempt, backoff, submission,
                   results, data, tries, raises, delays, final, writes, call,
                   total>>

\* handle_uploads_sequential, lines 220-239: the record is looked up, the
\* gallery is constructed and the cookie is set; an error of open() escapes to
\* upload()'s except
Resolve(r) ==
    /\ pc[r] = "resolve"
    /\ LET l == LoadSavedLinks(file)
       IN  IF l.raised
           THEN /\ Respond(r, Unexpected(file, "OSError"))
                /\ UNCHANGED gallery
           ELSE /\ gallery' = [gallery EXCEPT
                       ![r] = NewGallery(ResolveGallery(l.value, title[r]), cred[r])]
                /\ pc' = [pc EXCEPT ![r] = "create"]
                /\ UNCHANGED output
    /\ UNCHANGED <<file, title, cred, infos, idx, attempt, backoff, submission,
                   results, data, tries, raises, delays, final, writes, call,
                   total>>

\* a loop that stops at the first item whose retries were used up
LoopHeadAbort(r, i) ==
    IF i < Len(infos[r]) /\ submission[r].tag # "exc"
    THEN /\ idx' = [idx EXCEPT ![r] = i + 1]
         /\ backoff' = [backoff EXCEPT ![r] = InitialBackoff]
         /\ submission' = [submission EXCEPT ![r] = SubNone]
         /\ attempt' = [attempt EXCEPT ![r] = 0]
         /\ pc' = [pc EXCEPT ![r] = "attempt"]
    ELSE /\ pc' = [pc EXCEPT ![r] = "exit"]
         /\ backoff' = [backoff EXCEPT ![r] = InitialBackoff]
         /\ submission' = [submission EXCEPT ![r] = SubNone]
         /\ attempt' = [attempt EXCEPT ![r] = 0]
         /\ UNCHANGED idx

\* a loop head without `backoff = 1`: the next item goes on with the backoff
\* the last one reached
LoopHeadKeepBackoff(r, i) ==
    IF i < Len(infos[r])
    THEN /\ idx' = [idx EXCEPT ![r] = i + 1]
         /\ backoff' = [backoff EXCEPT ![r] = IF i = 0 THEN InitialBackoff ELSE @]
         /\ submission' = [submission EXCEPT ![r] = SubNone]
         /\ attempt' = [attempt EXCEPT ![r] = 0]
         /\ pc' = [pc EXCEPT ![r] = "attempt"]
    ELSE /\ pc' = [pc EXCEPT ![r] = "exit"]
         /\ backoff' = [backoff EXCEPT ![r] = InitialBackoff]
         /\ submission' = [submission EXCEPT ![r] = SubNone]
         /\ attempt' = [attempt EXCEPT ![r] = 0]
         /\ UNCHANGED idx

\* lines 247-250, the head of the for loop after item i: the next item's name,
\* backoff = 1, submission = None and attempt 0 of range(5); after the last
\* item the with block ends (the loop's locals are not read again: they are
\* left at their starting values)
LoopHead(r, i) ==
    IF i < Len(infos[r])
    THEN /\ idx' = [idx EXCEPT ![r] = i + 1]
         /\ backoff' = [backoff EXCEPT ![r] = InitialBackoff]
         /\ submission' = [submission EXCEPT ![r] = SubNone]
         /\ attempt' = [attempt EXCEPT ![r] = 0]
         /\ pc' = [pc EXCEPT ![r] = "attempt"]
    ELSE /\ pc' = [pc EXCEPT ![r] = "exit"]
         /\ backoff' = [backoff EXCEPT ![r] = InitialBackoff]
         /\ submission' = [submission EXCEPT ![r] = SubNone]
         /\ attempt' = [attempt EXCEPT ![r] = 0]
         /\ UNCHANGED idx

\* a create() whose error is swallowed: the loop starts all the same
CreateSwallow(r, urls) ==
    /\ pc[r] = "create"
    /\ \/ \E u \in urls :
            gallery' = [gallery EXCEPT ![r].creates = @ + 1,
                                       ![r].created = TRUE,
                                       ![r].url = u.url,
                                       ![r].edit_url = u.edit_url]
       \/ gallery' = [gallery EXCEPT ![r].creates = @ + 1]
    /\ LoopHead(r, 0)
    /\ results' = [results EXCEPT ![r] = << >>]
    /\ UNCHANGED <<file, title, cred, infos, data, output, tries, raises,
                   delays, final, writes, call, total>>

\* lines 241-250: results = []; async with gallery as g: await g.create().
\* create() returns with the handle's URLs set and the loop starts, or it
\* raises: the context manager closes the gallery and the error reaches
\* upload()'s except
Create(r, urls) ==
    /\ pc[r] = "create"
    /\ \/ \E u \in urls :
            /\ gallery' = [gallery EXCEPT ![r].creates = @ + 1,
                                          ![r].created = TRUE,
                                          ![r].url = u.url,
                                          ![r].edit_url = u.edit_url]
            /\ LoopHead(r, 0)
            /\ UNCHANGED output
       \/ \E e \in Errors :
            /\ gallery' = [gallery EXCEPT ![r].creates = @ + 1,
                                          ![r].closes = @ + 1]
            /\ Respond(r, Unexpected(file, e))
            /\ UNCHANGED <<idx, backoff, submission, attempt>>
    /\ results' = [results EXCEPT ![r] = << >>]
    /\ UNCHANGED <<file, title, cred, infos, data, tries, raises, delays,
                   final, writes, call, total>>

\* a retry loop without the break for a submission that is not flagged
\* successful: it is retried like an exception
AttemptRetryUnsuccessful(r) ==
    /\ pc[r] = "attempt"
    /\ tries' = [tries EXCEPT ![r] = @ + 1]
    /\ \/ \E s \in Submissions :
            /\ s.success \/ LastAttempt(attempt[r])
            /\ submission' = [submission EXCEPT ![r] = SubRet(s)]
            /\ final' = [final EXCEPT ![r] = Append(@, SubRet(s))]
            /\ pc' = [pc EXCEPT ![r] = "record"]
            /\ UNCHANGED raises
       \/ \E s \in Submissions :
            /\ ~s.success /\ ~LastAttempt(attempt[r])
            /\ pc' = [pc EXCEPT ![r] = "sleep"]
            /\ UNCHANGED <<submission, final, raises>>
       \/ \E e \in Errors :
            /\ raises' = [raises EXCEPT ![r] = @ + 1]
            /\ IF LastAttempt(attempt[r])
               THEN /\ submission' = [submission EXCEPT ![r] = SubExc(e)]
                    /\ final' = [final EXCEPT ![r] = Append(@, SubExc(e))]
                    /\ pc' = [pc EXCEPT ![r] = "record"]
               ELSE /\ pc' = [pc EXCEPT ![r] = "sleep"]
                    /\ UNCHANGED <<submission, final>>
    /\ total' = [total EXCEPT ![r] = Tally(@, "calls")]
    /\ UNCHANGED <<file, title, cred, infos, gallery, idx, attempt, backoff,
                   results, data, output, delays, writes, call>>

\* lines 253-261: one await g.upload(path).  It returns a submission (break),
\* or raises: the last attempt keeps the exception, an earlier one goes to
\* sleep
Attempt(r) ==
    /\ pc[r] = "attempt"
    /\ tries' = [tries EXCEPT ![r] = @ + 1]
    /\ \/ \E s \in Submissions :
            /\ submission' = [submission EXCEPT ![r] = SubRet(s)]
            /\ final' = [final EXCEPT ![r] = Append(@, SubRet(s))]
            /\ pc' = [pc EXCEPT ![r] = "record"]
            /\ UNCHANGED raises
       \/ \E e \in Errors :
            /\ raises' = [raises EXCEPT ![r] = @ + 1]
            /\ IF LastAttempt(attempt[r])
               THEN /\ submission' = [submission EXCEPT ![r] = SubExc(e)]
                    /\ final' = [final EXCEPT ![r] = Append(@, SubExc(e))]
                    /\ pc' = [pc EXCEPT ![r] = "record"]
               ELSE /\ pc' = [pc EXCEPT ![r] = "sleep"]
                    /\ UNCHANGED <<submission, final>>
    /\ total' = [total EXCEPT ![r] = Tally(@, "calls")]
    /\ UNCHANGED <<file, title, cred, infos, gallery, idx, attempt, backoff,
                   results, data, output, delays, writes, call>>

\* lines 262-263 and the loop's next round: await asyncio.sleep(backoff);
\* backoff *= 2
Sleep(r) ==
    /\ pc[r] = "sleep"
    /\ delays' = [delays EXCEPT ![r] = Append(@, backoff[r])]
    /\ backoff' = [backoff EXCEPT ![r] = NextBackoff(@)]
    /\ attempt' = [attempt EXCEPT ![r] = @ + 1]
    /\ pc' = [pc EXCEPT ![r] = "attempt"]
    /\ total' = [total EXCEPT ![r] = Tally(@, "sleeps")]
    /\ UNCHANGED <<file, title, cred, infos, gallery, idx, submission, results,
                   data, output, tries, raises, final, writes, call>>

\* outcomes gathered after the loop instead of item by item: nothing is
\* appended until the last item's retry loop has ended
RecordAtEnd(r) ==
    /\ pc[r] = "record"
    /\ results' = [results EXCEPT
           ![r] = IF idx[r] = Len(infos[r])
                  THEN [i \in 1..Len(final[r]) |->
                            Classify(infos[r][i], final[r][i])]
                  ELSE @]
    /\ LoopHead(r, idx[r])
    /\ tries' = [tries EXCEPT ![r] = 0]
    /\ raises' = [raises EXCEPT ![r] = 0]
    /\ delays' = [delays EXCEPT ![r] = << >>]
    /\ UNCHANGED <<file, title, cred, infos, gallery, data, output, final,
                   writes, call, total>>

\* lines 265-275 and the loop head: the outcome of the item is appended to
\* results and the loop goes on.  The counts kept for the item start again.
Record(r) ==
    /\ pc[r] = "record"
    /\ results' = [results EXCEPT
           ![r] = AppendResult(@, Classify(infos[r][idx[r]], submission[r]))]
    /\ LoopHead(r, idx[r])
    /\ tries' = [tries EXCEPT ![r] = 0]
    /\ raises' = [raises EXCEPT ![r] = 0]
    /\ delays' = [delays EXCEPT ![r] = << >>]
    /\ UNCHANGED <<file, title, cred, infos, gallery, data, output, final,
                   writes, call, total>>

\* the end of the async with block: the gallery is closed
Exit(r) ==
    /\ pc[r] = "exit"
    /\ gallery' = [gallery EXCEPT ![r].closes = @ + 1]
    /\ pc' = [pc EXCEPT ![r] = "persist"]
    /\ UNCHANGED <<file, title, cred, infos, idx, attempt, backoff, submission,
                   results, data, output, tries, raises, delays, final, writes,
                   call, total>>

\* lines 278-279 and 135: if gallery.url: save_gallery_link() loads the store.
\* With no URL the report is returned as it is (line 289, lines 193-212).
Persist(r) ==
    /\ pc[r] = "persist"
    /\ IF ShouldPersist(gallery[r])
       THEN LET l == LoadSavedLinks(file)
            IN  IF l.raised
                THEN /\ Respond(r, Unexpected(file, "OSError"))
                     /\ UNCHANGED data
                ELSE /\ data' = [data EXCEPT ![r] = l.value]
                     /\ pc' = [pc EXCEPT ![r] = "write"]
                     /\ UNCHANGED output
       ELSE /\ Respond(r, Render(file, "", results[r], TRUE))
            /\ UNCHANGED data
    /\ UNCHANGED <<file, title, cred, infos, gallery, idx, attempt, backoff,
                   submission, results, tries, raises, delays, final, writes,
                   call, total>>

\* lines 136-138, 280-289 and 193-212: the record is written, the two URL lines
\* are inserted and the report is rendered
Write(r) ==
    /\ pc[r] = "write"
    /\ file' = WriteLinks(data[r], title[r], gallery[r].url, gallery[r].edit_url)
    /\ writes' = [writes EXCEPT ![r] = @ + 1]
    /\ results' = [results EXCEPT ![r] = PrependUrls(@, gallery[r])]
    /\ Respond(r, Render(file', "", results'[r], TRUE))
    /\ UNCHANGED <<title, cred, infos, gallery, idx, attempt, backoff,
                   submission, data, tries, raises, delays, final, call,
                   total>>

\* one request, from the form to the page
Next ==
    \/ Request("r1", ItemLists, TitleInputs)
    \/ Resolve("r1")
    \/ Create("r1", HandleUrls)
    \/ Attempt("r1")
    \/ Sleep("r1")
    \/ Record("r1")
    \/ Exit("r1")
    \/ Persist("r1")
    \/ Write("r1")

Spec == Init /\ [][Next]_vars

\* index(): GET / renders the saved links it loads
Index ==
    /\ LET l == LoadSavedLinks(file)
       IN  call' = [NoCall EXCEPT !.op = "load", !.raised = l.raised,
                                  !.value = l.value]
    /\ UNCHANGED file
    /\ UNCHANGED runVars

\* save_gallery_link(t, g, e) called on the store as it is
Save(t, g, e) ==
    /\ LET s == SaveGalleryLink(file, t, g, e)
       IN  /\ file' = s.file
           /\ call' = [NoCall EXCEPT !.op = "save", !.title = t,
                                      !.gallery_url = g, !.edit_url = e,
                                      !.raised = s.raised,
                                      !.value = LoadSavedLinks(file).value]
    /\ UNCHANGED runVars

Titles == {DefaultTitle, "Chapter 1"}

\* the store helpers alone, on every store and every argument
InitStore ==
    /\ file \in StoreInits \cup EditUrlInits
    /\ InitRuns

NextStore ==
    \/ Index
    \/ \E t \in Titles, g \in {G1, G2}, e \in {E1, E2, BadNoUpload, EMPTY} :
           Save(t, g, e)

SpecStore == InitStore /\ [][NextStore]_vars

\* one request over one file, on every record the resolver can meet
InitResolve ==
    /\ file \in StoreInits \cup EditUrlInits
    /\ InitRuns

NextResolve ==
    \/ Request("r1", Lists(Names, 1), TitleInputs)
    \/ Resolve("r1")
    \/ Create("r1", HandleUrls)
    \/ Attempt("r1")
    \/ Sleep("r1")
    \/ Record("r1")
    \/ Exit("r1")
    \/ Persist("r1")
    \/ Write("r1")

SpecResolve == InitResolve /\ [][NextResolve]_vars

\* two requests one after the other, each over one file
InitSeq ==
    /\ file \in {Json(EmptyMap), Garbled, Json(One(DefaultTitle, Rec(G2, E2)))}
    /\ InitRuns

\* the second request arrives when the first has been answered
SecondRequest ==
    /\ pc["r1"] = "done"
    /\ Request("r2", {<<"b.png">>}, TitleInputs)

NextSeq ==
    \/ Request("r1", {<<"a.png">>}, TitleInputs)
    \/ SecondRequest
    \/ \E r \in Runs :
          \/ Resolve(r)
          \/ Create(r, HandleUrls)
          \/ Attempt(r)
          \/ Sleep(r)
          \/ Record(r)
          \/ Exit(r)
          \/ Persist(r)
          \/ Write(r)

SpecSeq == InitSeq /\ [][NextSeq]_vars

\* a gallery used without the with block: an error that escapes leaves it open
CancelLeak(r) ==
    /\ pc[r] \in {"attempt", "sleep"}
    /\ Respond(r, [NoOutput EXCEPT !.status = "cancelled"])
    /\ UNCHANGED <<file, title, cred, infos, gallery, idx, attempt, backoff,
                   submission, results, data, tries, raises, delays, final,
                   writes, call, total>>

\* lines 242-263 and 190-201: an await inside the loop (g.upload, line 255, or
\* asyncio.sleep, line 262) raises asyncio.CancelledError.  It is not an
\* Exception: neither line 257 nor upload()'s except (line 194) catches it.
\* The with block closes the gallery on the way out and no page is rendered.
Cancel(r) ==
    /\ pc[r] \in {"attempt", "sleep"}
    /\ gallery' = [gallery EXCEPT ![r].closes = @ + 1]
    /\ Respond(r, [NoOutput EXCEPT !.status = "cancelled"])
    /\ UNCHANGED <<file, title, cred, infos, idx, attempt, backoff, submission,
                   results, data, tries, raises, delays, final, writes, call,
                   total>>

\* one request that can be cancelled while it waits inside the loop
InitCancel ==
    /\ file \in {Json(EmptyMap), Json(One("Chapter 1", Rec(G1, E1)))}
    /\ InitRuns

NextCancel ==
    \/ Request("r1", ItemLists, TitleInputs)
    \/ Resolve("r1")
    \/ Create("r1", HandleUrls)
    \/ Attempt("r1")
    \/ Sleep("r1")
    \/ Cancel("r1")
    \/ Record("r1")
    \/ Exit("r1")
    \/ Persist("r1")
    \/ Write("r1")

SpecCancel == InitCancel /\ [][NextCancel]_vars

\* two galleries that create() can hand out, each with a well-formed edit URL
DistinctHandles ==
    { [url |-> G1, edit_url |-> E1],
      [url |-> G2, edit_url |-> E2] }

\* two requests served at the same time (app.run serves each request on its
\* own thread), each over one file; their steps interleave freely, the load
\* and the write inside save_gallery_link included
InitConc ==
    /\ file = Json(EmptyMap)
    /\ InitRuns

NextConc ==
    \E r \in Runs :
        \/ Request(r, {<<"a.png">>}, TitleInputs)
        \/ Resolve(r)
        \/ Create(r, DistinctHandles)
        \/ Attempt(r)
        \/ Sleep(r)
        \/ Record(r)
        \/ Exit(r)
        \/ Persist(r)
        \/ Write(r)

SpecConc == InitConc /\ [][NextConc]_vars

\* one request over up to MaxItems files, with the upload calls and the sleeps
\* of the whole run tallied
InitCount ==
    /\ file = Json(EmptyMap)
    /\ InitRunsTallied(Tallying)

NextCount ==
    \/ Request("r1", Lists({"a.png"}, MaxItems), {""})
    \/ Resolve("r1")
    \/ Create("r1", DistinctHandles)
    \/ Attempt("r1")
    \/ Sleep("r1")
    \/ Record("r1")
    \/ Exit("r1")
    \/ Persist("r1")
    \/ Write("r1")

SpecCount == InitCount /\ [][NextCount]_vars

\* ------------------------------------------------------ reading a state
ItemKinds == {"OK", "Failed", "Fail"}

IsItemLine(l) == l.kind \in ItemKinds

\* the lines of a report that speak of items, in the report's order
ItemLines(report) == SelectSeq(report, IsItemLine)

\* handle_uploads_sequential returned its report and upload() rendered it
Reported(r) == pc[r] = "done" /\ output[r].status = "200" /\ output[r].timed

\* the report of a run that returned one
Report(r) == output[r].upload_results

\* g.create() was awaited and raised
CreateFailed(r) == gallery[r].creates > 0 /\ ~gallery[r].created

\* the retry loop of item i ended with every upload call raising
Exhausted(r, i) == i \in 1..Len(final[r]) /\ final[r][i].tag = "exc"

\* the upload call that ended the retry loop of item i returned a submission
\* flagged successful
Succeeded(r, i) ==
    i \in 1..Len(final[r]) /\ final[r][i].tag = "sub" /\ final[r][i].sub.success

\* line l tells what happened to the item called n whose retry loop ended
\* with fin: success as OK, anything else as a failure
Tells(l, n, fin) ==
    /\ l.name = n
    /\ (l.kind = "OK") = (fin.tag = "sub" /\ fin.sub.success)
    /\ fin.tag = "exc" => l.err = fin.exc

\* ------------------------------------------------------------------ claims

\* C1: a run whose create call succeeds returns a report with exactly one item
\* line per input item, and the i-th item line has the i-th item's name and
\* tells what the i-th item's upload calls ended with, whatever the mix of
\* successes, unsuccessful submissions and exhausted retries.
C1_OneLinePerItemInOrder ==
    \A r \in Runs :
        (pc[r] = "done" /\ gallery[r].created) =>
            /\ Reported(r)
            /\ Len(final[r]) = Len(infos[r])
            /\ Len(ItemLines(Report(r))) = Len(infos[r])
            /\ \A i \in 1..Len(infos[r]) :
                   Tells(ItemLines(Report(r))[i], infos[r][i], final[r][i])

\* a finished run over two differently named items, the first exhausted, the
\* second returned without the success flag
C1_Witness ==
    /\ Reported("r1")
    /\ Len(infos["r1"]) = 2
    /\ infos["r1"][1] # infos["r1"][2]
    /\ Exhausted("r1", 1)
    /\ final["r1"][2].tag = "sub" /\ ~final["r1"][2].sub.success

\* C2: when every upload call for an item raises, exactly 5 calls are made,
\* with the delays 1, 2, 4, 8 between them (none before the first, none after
\* the fifth), and the item is then recorded as Failed with the last error.
C2_FiveAttemptsThenFailed ==
    \A r \in Runs :
        /\ (pc[r] = "record" /\ raises[r] = tries[r]) =>
               /\ tries[r] = 5
               /\ delays[r] = <<1, 2, 4, 8>>
               /\ submission[r].tag = "exc"
               /\ final[r][idx[r]] = submission[r]
        /\ (pc[r] = "record" /\ submission[r].tag = "exc") =>
               raises[r] = tries[r]
        /\ (pc[r] \in {"sleep", "attempt"}) =>
               /\ raises[r] = tries[r]
               /\ Len(delays[r]) = IF pc[r] = "sleep" THEN tries[r] - 1
                                   ELSE tries[r]
        /\ \A i \in 1..Len(ItemLines(results[r])) :
               Exhausted(r, i) =>
                   ItemLines(results[r])[i] =
                       Line("Failed", infos[r][i], NONE, final[r][i].exc)

\* the second item has just used up its five calls, the first was recorded as
\* Failed after using up its own
C2_Witness ==
    /\ pc["r1"] = "record"
    /\ idx["r1"] = 2
    /\ raises["r1"] = 5
    /\ Exhausted("r1", 1)
    /\ results["r1"][1].kind = "Failed"
    /\ final["r1"][1].exc # final["r1"][2].exc

\* what the line of an item is when only its own name and the end of its own
\* retry loop count
OwnOutcome(n, fin) ==
    CASE fin.tag = "exc" -> Line("Failed", n, NONE, fin.exc)
      [] fin.tag = "sub" /\ fin.sub.success ->
            Line("OK", n,
                 IF Truthy(fin.sub.web_url) THEN fin.sub.web_url
                 ELSE IF Truthy(fin.sub.image_url) THEN fin.sub.image_url
                 ELSE EMPTY, "")
      [] OTHER ->
            Line("Fail", n, NONE,
                 IF fin.sub.has_error THEN fin.sub.error ELSE "Unknown error")

\* C3: an item that uses up its retries never aborts the batch: every item is
\* still attempted and reported; when exactly one item is exhausted the report
\* holds exactly one Failed line, at that item's index; and every other line
\* is what that item's own name and own upload result make it, as it would be
\* had the exhausted item succeeded.
C3_ExhaustionDoesNotAbort ==
    \A r \in Runs :
        /\ (pc[r] \in {"exit", "persist", "write", "done"}
                /\ gallery[r].created) =>
               /\ Len(final[r]) = Len(infos[r])
               /\ Len(ItemLines(results[r])) = Len(infos[r])
        /\ Reported(r) =>
               \A k \in 1..Len(infos[r]) :
                   ({i \in 1..Len(infos[r]) : Exhausted(r, i)} = {k}) =>
                       /\ {i \in 1..Len(ItemLines(Report(r))) :
                              ItemLines(Report(r))[i].kind = "Failed"} = {k}
                       /\ \A i \in 1..Len(infos[r]) \ {k} :
                              ItemLines(Report(r))[i] =
                                  OwnOutcome(infos[r][i], final[r][i])

\* the first of two items was exhausted, the second was uploaded and is
\* reported OK
C3_Witness ==
    /\ Reported("r1")
    /\ Len(infos["r1"]) = 2
    /\ Exhausted("r1", 1)
    /\ Succeeded("r1", 2)
    /\ ItemLines(Report("r1"))[2].kind = "OK"

\* the two URL lines lead the report
UrlLinesLead(r) ==
    /\ Len(Report(r)) >= 2
    /\ Report(r)[1] = Line("Gallery URL", "", gallery[r].url, "")
    /\ Report(r)[2] = Line("Edit URL", "", gallery[r].edit_url, "")

\* C7: after the items, the run saves a record for its title and prepends the
\* gallery URL line and the edit URL line if and only if the handle exposes a
\* non-empty gallery URL and a non-empty edit URL; when they are and every
\* upload succeeded, the report is the two URL lines and one OK line per item
\* in input order, and the store holds a record for the title.
C7_PersistIffBothUrls ==
    \A r \in Runs :
        Reported(r) =>
            LET both == Truthy(gallery[r].url) /\ Truthy(gallery[r].edit_url)
            IN  /\ (writes[r] = 1) = both
                /\ UrlLinesLead(r) = both
                /\ (both /\ \A i \in 1..Len(infos[r]) : Succeeded(r, i)) =>
                       /\ Len(Report(r)) = 2 + Len(infos[r])
                       /\ \A i \in 1..Len(infos[r]) :
                              /\ Report(r)[2 + i].kind = "OK"
                              /\ Report(r)[2 + i].name = infos[r][i]
                       /\ file.state = "json"
                       /\ title[r] \in DOMAIN file.data

\* C10: a create() that raises is fatal and not retried: create is called
\* once, no upload call is made, nothing is written to the store, and the page
\* shows one run-level error and no item line.
C10_CreateFailureIsFatal ==
    \A r \in Runs :
        CreateFailed(r) =>
            /\ pc[r] = "done"
            /\ gallery[r].creates = 1
            /\ tries[r] = 0 /\ final[r] = << >> /\ results[r] = << >>
            /\ writes[r] = 0
            /\ output[r].status = "200"
            /\ output[r].error_message = ""
            /\ ~output[r].timed
            /\ Len(output[r].upload_results) = 1
            /\ output[r].upload_results[1].kind = "Unexpected error"
            /\ output[r].upload_results[1].err \in Errors
            /\ ItemLines(output[r].upload_results) = << >>

\* create() raised for a request with two files
C10_Witness ==
    /\ CreateFailed("r1")
    /\ pc["r1"] = "done"
    /\ Len(infos["r1"]) = 2
    /\ output["r1"].upload_results[1].err = "timeout"

\* the lengths of the prefixes "..." for which u reads
\* .../upload/edit/{slug}/{token} with a slug and a token that are not empty
Forms(u) ==
    {n \in 1..(Len(u) - 4) :
        /\ SubSeq(u, n + 1, n + 2) = <<"upload", "edit">>
        /\ u[n + 3] # ""
        /\ u[n + 4] # ""}

First(S) == CHOOSE n \in S : \A m \in S : n <= m

\* the run has constructed its gallery and has not written the store
Resolved(r) == gallery[r].mode # "none" /\ writes[r] = 0

\* the edit URL the store holds for the title of run r (None without one)
StoredEditUrl(r) ==
    IF file.state = "json" /\ title[r] \in DOMAIN file.data
    THEN file.data[title[r]].edit_url
    ELSE NONE

\* C5: when the store holds, for the title, an edit URL of the form
\* .../upload/edit/{slug}/{token}, the gallery is constructed in resume mode,
\* never with the title, and with the two segments that follow the first such
\* /upload/edit/ as slug and token.
C5_ResumeWithStoredSlugAndToken ==
    \A r \in Runs :
        (Resolved(r) /\ Forms(StoredEditUrl(r)) # {}) =>
            LET u == StoredEditUrl(r)
                n == First(Forms(u))
            IN  /\ gallery[r].mode = "resume"
                /\ gallery[r].title = ""
                /\ gallery[r].slug = u[n + 3]
                /\ gallery[r].token = u[n + 4]

\* the gallery of the stored record .../upload/edit/s1/t1 was resumed
C5_Witness ==
    /\ Resolved("r1")
    /\ StoredEditUrl("r1") = E1
    /\ gallery["r1"].mode = "resume"
    /\ gallery["r1"].slug = "s1"
    /\ gallery["r1"].token = "t1"
    /\ gallery["r1"].created

\* the request got past the form checks and past the lookup of its record
PastResolve(r) ==
    pc[r] \notin {"idle", "resolve"} /\ output[r].error_message = ""

\* C6: a record whose edit URL does not match, a record without edit URL, no
\* record and a store file that is not JSON are not fatal: the gallery is
\* constructed in create mode for the same title and create() is called.
C6_MalformedStateFallsBackToCreate ==
    \A r \in Runs :
        (PastResolve(r) /\ writes[r] = 0 /\ file.state # "missing"
             /\ Forms(StoredEditUrl(r)) = {}) =>
            /\ gallery[r].mode = "create"
            /\ gallery[r].title = title[r]
            /\ gallery[r].slug = "" /\ gallery[r].token = ""
            /\ pc[r] = "create" \/ gallery[r].creates = 1

\* the record's edit URL lacks the /upload/ segment and a new gallery was
\* created
C6_Witness ==
    /\ PastResolve("r1")
    /\ StoredEditUrl("r1") = BadNoUpload
    /\ gallery["r1"].mode = "create"
    /\ gallery["r1"].title = "Chapter 1"
    /\ gallery["r1"].created

\* every remote call of run r returned, with success
AllRemoteCallsSucceeded(r) ==
    /\ Reported(r)
    /\ gallery[r].created
    /\ \A i \in 1..Len(infos[r]) : Succeeded(r, i)

\* C4: after a first run that started without a record, whose remote calls
\* all succeeded and which persisted an edit URL of the form
\* .../upload/edit/{slug}/{token}, a second run with the same title resolves
\* to resume mode with the stored slug and token and issues no create call.
C4_NoSecondCreateCall ==
    (/\ AllRemoteCallsSucceeded("r1")
     /\ gallery["r1"].mode = "create"
     /\ writes["r1"] = 1
     /\ Forms(gallery["r1"].edit_url) # {}
     /\ title["r2"] = title["r1"]
     /\ PastResolve("r2")) =>
        LET u == gallery["r1"].edit_url
            n == First(Forms(u))
        IN  /\ gallery["r2"].mode = "resume"
            /\ gallery["r2"].slug = u[n + 3]
            /\ gallery["r2"].token = u[n + 4]
            /\ gallery["r2"].creates = 0

\* the part of C4 that the resolver decides: the second run constructs its
\* gallery in resume mode with the slug and token the first run persisted,
\* never in create mode, and awaits create() on it at most once
SecondRunResumes ==
    (/\ AllRemoteCallsSucceeded("r1")
     /\ writes["r1"] = 1
     /\ Forms(gallery["r1"].edit_url) # {}
     /\ title["r2"] = title["r1"]
     /\ PastResolve("r2")) =>
        LET u == gallery["r1"].edit_url
            n == First(Forms(u))
        IN  /\ gallery["r2"].mode = "resume"
            /\ gallery["r2"].title = ""
            /\ gallery["r2"].slug = u[n + 3]
            /\ gallery["r2"].token = u[n + 4]
            /\ gallery["r2"].creates <= 1

\* the first run created a gallery for a title without record, the second
\* resumed it, awaited create() on it and is done
SecondRunResumed ==
    /\ AllRemoteCallsSucceeded("r1")
    /\ gallery["r1"].mode = "create"
    /\ gallery["r1"].edit_url = E1
    /\ title["r2"] = title["r1"]
    /\ gallery["r2"].mode = "resume"
    /\ gallery["r2"].slug = "s1"
    /\ gallery["r2"].token = "t1"
    /\ gallery["r2"].creates = 1
    /\ Reported("r2")

\* C8: load_saved_links returns an empty mapping and raises nothing whenever
\* the file cannot be opened or read or does not hold JSON.
C8_LoadFailsSoft ==
    (call.op = "load" /\ file.state # "json") =>
        /\ ~call.raised
        /\ call.value = EmptyMap

\* C9: save_gallery_link is an idempotent upsert: after a call, the same call
\* again leaves the store as it is, and when the call returned the record of
\* the title holds the two URLs given, whatever record was there before.
C9_SaveIsIdempotentUpsert ==
    call.op = "save" =>
        /\ SaveGalleryLink(file, call.title, call.gallery_url,
                           call.edit_url).file = file
        /\ ~call.raised =>
               /\ file.state = "json"
               /\ call.title \in DOMAIN file.data
               /\ file.data[call.title] = Rec(call.gallery_url, call.edit_url)

\* a save over a record of the same title that held other URLs
C9_Witness ==
    /\ call.op = "save"
    /\ ~call.raised
    /\ call.title \in DOMAIN call.value
    /\ call.value[call.title] # Rec(call.gallery_url, call.edit_url)
    /\ file.data[call.title] = Rec(call.gallery_url, call.edit_url)

\* an upload call of the run has been made or is the run's next step
UploadReached(r) ==
    pc[r] \in {"attempt", "sleep", "record"} \/ tries[r] > 0 \/ final[r] # << >>

\* C11: in every run the Cookie header _imgbox_session=<credential> is on the
\* client before any remote call, and no upload call is made before the one
\* create call of the run has returned.
C11_CookieThenCreateThenUpload ==
    \A r \in Runs :
        /\ gallery[r].creates > 0 => gallery[r].cookie = CookieHeader(cred[r])
        /\ UploadReached(r) =>
              /\ gallery[r].cookie = CookieHeader(cred[r])
              /\ gallery[r].creates = 1
              /\ gallery[r].created
        /\ pc[r] \in {"idle", "resolve", "create"} =>
              tries[r] = 0 /\ final[r] = << >>
        /\ pc[r] \in {"idle", "resolve"} => gallery[r].creates = 0

\* the first upload call of a run is about to be made: the cookie is set and
\* create() has returned
C11_Witness ==
    /\ pc["r1"] = "attempt"
    /\ idx["r1"] = 1
    /\ tries["r1"] = 0
    /\ cred["r1"] = "abc"
    /\ gallery["r1"].cookie = <<"_imgbox_session", "abc">>
    /\ gallery["r1"].created

\* the upload call that ended the retry loop of item i returned a submission
\* that is not flagged successful
Unsuccessful(r, i) ==
    i \in 1..Len(final[r]) /\ final[r][i].tag = "sub" /\ ~final[r][i].sub.success

\* the error detail of a Failed line for submission s: the error s carries,
\* "Unknown error" when the field is absent or empty
ErrorDetail(s) == IF s.has_error /\ s.error # "" THEN s.error ELSE "Unknown error"

\* C12: an item whose upload call returned a submission not flagged successful
\* is recorded by a line of the same Failed form as an item whose retries were
\* used up, bearing the submission's error detail, or "Unknown error" when the
\* error field is absent or empty.
C12_UnsuccessfulIsFailedWithDetail ==
    \A r \in Runs :
        \A i \in 1..Len(ItemLines(results[r])) :
            Unsuccessful(r, i) =>
                ItemLines(results[r])[i] =
                    Line("Failed", infos[r][i], NONE, ErrorDetail(final[r][i].sub))

\* u is a URL with something in it: neither None nor ""
NonEmpty(u) == u # NONE /\ u # EMPTY

\* the URL reported for successful submission s
ReportedUrl(s) ==
    IF NonEmpty(s.web_url) THEN s.web_url
    ELSE IF NonEmpty(s.image_url) THEN s.image_url
    ELSE EMPTY

\* C13: an item whose upload call returned a submission flagged successful is
\* recorded by an OK line whose URL is the web URL when that is non-empty,
\* else the image URL when that is non-empty, else the empty string.
C13_SuccessUrlPreference ==
    \A r \in Runs :
        \A i \in 1..Len(ItemLines(results[r])) :
            Succeeded(r, i) =>
                ItemLines(results[r])[i] =
                    Line("OK", infos[r][i], ReportedUrl(final[r][i].sub), "")

\* a report with the three cases: web URL, image URL for want of a web URL,
\* and a success with nothing to link
C13_Witness ==
    /\ Reported("r1")
    /\ \E i, j \in 1..Len(ItemLines(Report("r1"))) :
          /\ Succeeded("r1", i) /\ Succeeded("r1", j)
          /\ final["r1"][i].sub.web_url = EMPTY
          /\ ItemLines(Report("r1"))[i].url = I1
          /\ final["r1"][j].sub.image_url = NONE
          /\ ItemLines(Report("r1"))[j].url = EMPTY

\* the run entered the with block: the remote handle is held from there on
Acquired(r) == gallery[r].creates > 0

\* C14: every run that acquires the remote handle releases it exactly once
\* before the run ends, whether every upload succeeds, items fail, the create
\* call fails or an error escapes the item loop; it is not released while the
\* loop runs and not without having been acquired.
C14_ReleasedExactlyOnce ==
    \A r \in Runs :
        /\ gallery[r].closes <= 1
        /\ (pc[r] = "done" /\ Acquired(r)) => gallery[r].closes = 1
        /\ pc[r] \in {"persist", "write"} => gallery[r].closes = 1
        /\ pc[r] \in {"attempt", "sleep", "record", "exit"} =>
              gallery[r].closes = 0
        /\ ~Acquired(r) => gallery[r].closes = 0

\* an error escaped the loop after one item had failed, and the handle was
\* released
C14_Witness ==
    /\ pc["r1"] = "done"
    /\ output["r1"].status = "cancelled"
    /\ Len(final["r1"]) = 1
    /\ ~Succeeded("r1", 1)
    /\ Acquired("r1")
    /\ gallery["r1"].closes = 1

\* the create call failed and the handle was released
CreateFailedAndReleased ==
    /\ pc["r1"] = "done"
    /\ CreateFailed("r1")
    /\ gallery["r1"].closes = 1

\* C15: the uploads of a run are made one item at a time in item order: while
\* item i is being attempted or waited for, the retry loops of items 1..i-1
\* have ended and their outcomes are recorded, in order, and no upload call
\* has been made for a later item; the calls counted are those of item i.
C15_OneItemAtATime ==
    \A r \in Runs :
        /\ idx[r] <= Len(infos[r])
        /\ pc[r] \in {"attempt", "sleep", "record"} =>
              /\ idx[r] >= 1
              /\ Len(final[r]) = (IF pc[r] = "record" THEN idx[r] ELSE idx[r] - 1)
              /\ Len(results[r]) = idx[r] - 1
              /\ \A i \in 1..(idx[r] - 1) :
                    Tells(results[r][i], infos[r][i], final[r][i])
              /\ tries[r] <= attempt[r] + 1
        /\ pc[r] \notin {"attempt", "sleep", "record"} => tries[r] = 0
        /\ pc[r] \in {"exit", "persist", "write"} =>
              Len(final[r]) = Len(infos[r])

\* the first upload call of item 2 is about to be made: item 1 used all its
\* attempts and delays and its Failed line is recorded
C15_Witness ==
    /\ pc["r1"] = "attempt"
    /\ idx["r1"] = 2
    /\ tries["r1"] = 0
    /\ Exhausted("r1", 1)
    /\ results["r1"] = <<Line("Failed", infos["r1"][1], NONE, final["r1"][1].exc)>>

\* the run went through save_gallery_link
Saved(r) == pc[r] = "done" /\ writes[r] = 1

\* the store's record for title t is the pair of URLs of run r's gallery
RecordIsOf(t, r) ==
    /\ t \in DOMAIN file.data
    /\ file.data[t] = Rec(gallery[r].url, gallery[r].edit_url)

\* C16: concurrent runs are not coordinated: the write of a run puts the run's
\* own URLs under its title whatever another run has stored there since this
\* run resolved, so of two concurrent runs with one title the record left is
\* that of the run that wrote last.
C16_LastWriteWins ==
    [][\A r \in Runs :
          (pc[r] = "write" /\ pc'[r] = "done") =>
              /\ title[r] \in DOMAIN file'.data
              /\ file'.data[title[r]] = Rec(gallery[r].url, gallery[r].edit_url)]_vars

\* both runs resolved to create mode under one title (neither saw the other's
\* record), both saved, and the record left is r2's: r1's gallery is not in
\* the store any more
C16_Witness ==
    /\ Saved("r1") /\ Saved("r2")
    /\ title["r1"] = title["r2"]
    /\ gallery["r1"].mode = "create" /\ gallery["r2"].mode = "create"
    /\ gallery["r1"].url = G1 /\ gallery["r2"].url = G2
    /\ RecordIsOf(title["r2"], "r2")
    /\ \A t \in DOMAIN file.data : file.data[t].gallery_url # G1

\* C17: two runs with different titles that both reach save_gallery_link leave
\* the store with a record for each of the two titles, however the load and
\* write steps of the two saves interleave.
C17_BothTitlesKept ==
    (Saved("r1") /\ Saved("r2") /\ title["r1"] # title["r2"]) =>
        /\ RecordIsOf(title["r1"], "r1")
        /\ RecordIsOf(title["r2"], "r2")

\* the records load_saved_links() reads from the store as it is now
Stored == LoadSavedLinks(file).value

\* C18: a call of save_gallery_link(title, ...) that returns leaves every
\* record under another title as the store held it before the call, from any
\* store content the file can be opened with; a call that raises leaves the
\* file as it was.
C18_SaveTouchesOnlyItsTitle ==
    call.op = "save" =>
        IF call.raised
        THEN file = Missing
        ELSE /\ DOMAIN Stored \ {call.title} = DOMAIN call.value \ {call.title}
             /\ \A t \in DOMAIN Stored \ {call.title} : Stored[t] = call.value[t]

\* a record was saved under one title into a store that held a record under
\* another title, and that record is still there
C18_Witness ==
    /\ call.op = "save"
    /\ ~call.raised
    /\ call.title = DefaultTitle
    /\ "Chapter 1" \in DOMAIN call.value
    /\ call.value["Chapter 1"] = Rec(G1, BadNoSlug)
    /\ "Chapter 1" \in DOMAIN Stored
    /\ Stored["Chapter 1"] = Rec(G1, BadNoSlug)
    /\ Stored[DefaultTitle] = Rec(call.gallery_url, call.edit_url)

\* C19: an upload call that returns a submission ends the item's retry loop,
\* successful or not: no call of the item returned before the one that ended
\* the loop, and an item whose first call returns an unsuccessful submission
\* has had exactly one call and no delay, and is recorded as a failure.
C19_ReturnEndsRetryLoop ==
    \A r \in Runs :
        /\ pc[r] \in {"attempt", "sleep"} =>
              raises[r] = tries[r] /\ submission[r].tag = "none"
        /\ (pc[r] = "record" /\ submission[r].tag = "sub") =>
              /\ raises[r] = tries[r] - 1
              /\ Len(delays[r]) = raises[r]
              /\ raises[r] = 0 => (tries[r] = 1 /\ delays[r] = << >>)
        /\ \A i \in 1..Len(ItemLines(results[r])) :
              Unsuccessful(r, i) =>
                  /\ ItemLines(results[r])[i].kind \in {"Fail", "Failed"}
                  /\ ItemLines(results[r])[i].name = infos[r][i]

\* the first upload call of an item returned an unsuccessful submission: one
\* call, no delay, and the loop is over
C19_Witness ==
    /\ pc["r1"] = "record"
    /\ submission["r1"].tag = "sub"
    /\ ~submission["r1"].sub.success
    /\ tries["r1"] = 1
    /\ raises["r1"] = 0
    /\ delays["r1"] = << >>

\* that item's line is a failure line and the next item is up
UnsuccessfulOnceRecorded ==
    /\ pc["r1"] = "attempt"
    /\ idx["r1"] = 2
    /\ Unsuccessful("r1", 1)
    /\ results["r1"][1].kind = "Fail"

\* the longest delay a retry loop can reach: the backoff before the last retry
MaxDelay == InitialBackoff * BackoffFactor ^ (MaxAttempts - 2)

\* the steps one item can still take: calls, sleeps and the recording
ItemSteps(r) ==
    CASE pc[r] = "attempt" -> 2 * (MaxAttempts - attempt[r])
      [] pc[r] = "sleep"   -> 2 * (MaxAttempts - attempt[r]) - 1
      [] OTHER             -> 1

\* a bound on the steps run r can still take
Steps(r) ==
    CASE pc[r] = "idle"    -> 2 * MaxAttempts * MaxItems + 7
      [] pc[r] = "resolve" -> 2 * MaxAttempts * Len(infos[r]) + 6
      [] pc[r] = "create"  -> 2 * MaxAttempts * Len(infos[r]) + 5
      [] pc[r] \in {"attempt", "sleep", "record"} ->
             2 * MaxAttempts * (Len(infos[r]) - idx[r]) + 4 + ItemSteps(r)
      [] pc[r] = "exit"    -> 3
      [] pc[r] = "persist" -> 2
      [] pc[r] = "write"   -> 1
      [] OTHER             -> 0

\* the retry state is the item's own and the run's calls and sleeps are bounded
RetryBounds(r) ==
    /\ (pc[r] = "attempt" /\ tries[r] = 0) =>
          backoff[r] = InitialBackoff /\ attempt[r] = 0
    /\ pc[r] = "sleep" => backoff[r] <= MaxDelay
    /\ \A i \in 1..Len(delays[r]) : delays[r][i] <= MaxDelay
    /\ total[r].calls <= MaxAttempts * idx[r]
    /\ total[r].sleeps <= (MaxAttempts - 1) * idx[r]
    /\ idx[r] <= Len(infos[r])
    /\ pc[r] # "done" => ENABLED NextCount
    /\ (pc[r] = "done" /\ gallery[r].created) =>
          Reported(r) /\ Len(ItemLines(Report(r))) = Len(infos[r])

\* C20: the backoff starts at 1 for every item whatever earlier items used, a
\* run over n items makes at most 5n upload calls and at most 4n sleeps, none
\* longer than 8, and the run ends after a bounded number of steps with its
\* report: every step lowers the bound on the steps left and a run that has
\* not ended can take a step.
C20_BoundedRetriesAndTermination ==
    /\ [](RetryBounds("r1"))
    /\ [][Steps("r1")' < Steps("r1")]_vars

\* every item used all its attempts: 5 calls and 4 sleeps each, and the run
\* ended with its report
C20_Witness ==
    /\ Reported("r1")
    /\ Len(infos["r1"]) = 2
    /\ \A i \in 1..2 : Exhausted("r1", i)
    /\ total["r1"].calls = 2 * MaxAttempts
    /\ total["r1"].sleeps = 2 * (MaxAttempts - 1)

====
